---- MODULE Spec2Model ----
(***************************************************************************)
(* A model of scripts/combine_pdfs.py, the filter of the collection        *)
(* (get_collection_items_with_pdfs), the download of each item's PDF       *)
(* (get_pdf_content) and the size-bounded aggregation loop (combine_pdfs). *)
(* and of extract_text_from_pdf of scripts/llm_summarize_pdfs.py.          *)
(*                                                                         *)
(* Sizes are whole megabytes.  The content of a merger or of a written     *)
(* artifact is the sequence of the keys of the items whose pages it holds, *)
(* in page order; its measured size is the sum of the items' sizes.        *)
(***************************************************************************)
EXTENDS Integers, Sequences, FiniteSets, TLC

\* ------------------------------------------------------------------ bounds
\* The longest input list items_with_pdfs that is explored.
MaxItems == 3

\* The longest input list explored when get_pdf_content is followed request
\* by request.
MaxFetchItems == 1

\* The longest collection explored when the run starts at the listing of the
\* collection.
MaxCollection == 2

\* The largest number of pages of a document given to extract_text_from_pdf.
MaxPages == 3

\* ------------------------------------------------------- program constants
\* combine_pdfs: MAX_SIZE_MB = 95  # Buffer before 100MB limit
MAX_SIZE_MB == 95

\* main(): output_path = f"{output_name}_papers.pdf", as os.path.splitext
\* splits it into (name, ext).
output_path == [name |-> "s3_sci-insights_s3.3_social_papers", ext |-> ".pdf"]

\* The downloaded documents the inputs are drawn from: size in MB and number
\* of pages.  40, 40, 30 is the scenario of the design notes; 95 lands
\* exactly on the ceiling.
PdfContents ==
    { [size |-> 30, pages |-> 3],
      [size |-> 40, pages |-> 4],
      [size |-> 95, pages |-> 9] }

\* What get_pdf_content returns when every download attempt failed (None);
\* like an empty byte string it is falsy in `if pdf_content:`.
NoContent == [size |-> 0, pages |-> 0]

\* The calls of the loop body that may raise inside the try block, and
\* "none" for an iteration in which nothing raises.
Faults ==
    { "none",        \* no call raises
      "tmpfile",     \* open(temp_pdf_path, "wb") / f.write          (219-220)
      "append",      \* merger.append(temp_pdf_path, ...)            (223)
      "write_open",  \* merger.write(...) raises before truncating   (224)
      "write_mid",   \* merger.write(...) raises after truncating    (224)
      "reappend",    \* merger.append(...) into the new merger       (241)
      "pages" }      \* len(PdfReader(temp_pdf_path).pages)          (245)

VARIABLES
    collection,           \* zot.collection_items(collection_key), each entry
                          \* with what zot.children finds for it
    items,                \* items_with_pdfs: the content behind each pair of
                          \* the input list of combine_pdfs
    pc,                   \* position: "fetch", "ingest", "cleanup", "final",
                          \*           "done" (returned), "raised"; inside
                          \*           get_pdf_content "storage", "signed",
                          \*           "method2", "method3", "alt", and
                          \*           "blocked" in a request that never ends
    idx,                  \* 1-based position of the item being processed
    pdf_content,          \* result of get_pdf_content for the current item
    pdf_item_data,        \* what get_pdf_content reads of the attachment
    requests,             \* the requests.get calls of the current call of
                          \* get_pdf_content, in order, each with its outcome
    temp_files,           \* keys of the files present in temp_dir
    merger,               \* content appended to the current PdfMerger
    files,                \* output files on disk: path -> content
    chunks_info,          \* list of {path, size, papers}
    current_chunk,        \* index of the open chunk
    current_temp_path,    \* path of the open chunk's artifact
    current_chunk_papers, \* member records of the open chunk
    processed_papers,     \* records of the processed items
    failed_papers,        \* titles of the failed items
    pdf_bytes,            \* llm_summarize_pdfs.extract_text_from_pdf: the
                          \* argument, as PyPDF2 will read it
    extract_pc,           \* position in extract_text_from_pdf: "call",
                          \* "opened", "closed", "pages", "returned",
                          \* "raised"; "not_running" outside the script
    tmp_path_exists,      \* whether the file at tmp_path exists
    page_no,              \* position of `for page in reader.pages`
    text_content,         \* the texts collected so far
    extracted_text        \* the value returned

\* The state of extract_text_from_pdf.
extractor_vars ==
    << pdf_bytes, extract_pc, tmp_path_exists, page_no, text_content,
       extracted_text >>

vars ==
    << collection, items, pc, idx, pdf_content, pdf_item_data, requests, temp_files, merger,
       files, chunks_info, current_chunk, current_temp_path,
       current_chunk_papers, processed_papers, failed_papers, extractor_vars >>

\* extract_text_from_pdf is not running (combine_pdfs.py never calls it).
ExtractorIdle ==
    /\ pdf_bytes = [readable |-> FALSE, pages |-> <<>>]
    /\ extract_pc = "not_running"
    /\ tmp_path_exists = FALSE
    /\ page_no = 1
    /\ text_content = <<>>
    /\ extracted_text = ""

\* ----------------------------------------------------------------- helpers
RECURSIVE SeqsUpTo(_, _)
\* All sequences over S of length 0..n.
SeqsUpTo(S, n) ==
    IF n = 0 THEN { <<>> }
    ELSE LET shorter == SeqsUpTo(S, n - 1)
         IN  shorter \cup { Append(s, x) : s \in { t \in shorter : Len(t) = n - 1 }, x \in S }

\* The entries of a collection: a regular item with a PDF child, a regular
\* item whose children hold no PDF (or that has no child), a top-level
\* attachment, and an item for which zot.children raises.
CollectionEntries ==
    [ kind : { "pdf" }, content : PdfContents ]
       \cup [ kind : { "no_pdf", "attachment", "children_error" },
              content : { NoContent } ]

\* A variant of the filter that keeps every regular item whose children
\* could be listed, with or without a PDF among them.
HasChildren(entry) == entry.kind \in { "pdf", "no_pdf" }

\* The item is not an attachment, zot.children answers, and a child has
\* contentType application/pdf or is an attachment named *.pdf.
HasPdfAttachment(entry) == entry.kind = "pdf"

\* get_collection_items_with_pdfs(zot, collection_key): the positions in
\* the collection of the items that are kept, in order.
get_collection_items_with_pdfs(coll) ==
    LET F[j \in 0..Len(coll)] ==
          IF j = 0 THEN <<>>
          ELSE IF HasPdfAttachment(coll[j]) THEN Append(F[j - 1], j)
               ELSE F[j - 1]
    IN  F[Len(coll)]

\* The title of the item at position j of the collection.
CollectionTitle(j) == "paper" \o ToString(j)

\* title = parent_item["data"].get("title", "Untitled"): the title of the
\* k-th pair of items_with_pdfs is that of its item in the collection.
TitleOf(k) == CollectionTitle(get_collection_items_with_pdfs(collection)[k])

\* The collection in which every item has a PDF with the given content.
AllWithPdfs(contents) ==
    [k \in 1..Len(contents) |-> [kind |-> "pdf", content |-> contents[k]]]

RECURSIVE SumSizes(_)
\* os.path.getsize(path) / (1024 * 1024) of a file holding content: the sum
\* of the sizes of the items whose keys are listed in content.
SumSizes(content) ==
    IF content = <<>> THEN 0
    ELSE items[Head(content)].size + SumSizes(Tail(content))

\* A variant of get_chunk_path that leaves the first chunk without a suffix.
get_chunk_path_plain_first(base_path, chunk_num) ==
    IF chunk_num = 1 THEN base_path.name \o base_path.ext
    ELSE base_path.name \o "_chunk" \o ToString(chunk_num) \o base_path.ext

\* get_chunk_path: name, ext = os.path.splitext(base_path);
\* f"{name}_chunk{chunk_num}{ext}"
get_chunk_path(base_path, chunk_num) ==
    base_path.name \o "_chunk" \o ToString(chunk_num) \o base_path.ext

\* A variant of the ceiling test that compares a size in KB (one division by
\* 1024 fewer) with the ceiling in MB.
ReachedCeilingKB(current_size_mb) == current_size_mb * 1024 >= MAX_SIZE_MB

\* if current_size_mb >= MAX_SIZE_MB:
ReachedCeiling(current_size_mb) == current_size_mb >= MAX_SIZE_MB

\* A variant of the rollover that does not advance the chunk index.
NextChunkStale(chunk_num) == chunk_num

\* current_chunk += 1
NextChunk(chunk_num) == chunk_num + 1

\* chunks_info.append({"path": ..., "size": ..., "papers": papers.copy()})
ChunkInfo(path, size, papers) ==
    [path |-> path, size |-> size, papers |-> papers]

\* {"title": title, "pages": len(PdfReader(temp_pdf_path).pages)}
PaperRecord(k) == [title |-> TitleOf(k), pages |-> items[k].pages]

\* ---------------------------------------------------------------- initial
Init ==
    /\ items \in SeqsUpTo(PdfContents, MaxItems)
    /\ collection = AllWithPdfs(items)
    /\ pc = IF Len(items) = 0 THEN "cleanup" ELSE "fetch"
    /\ idx = 1
    /\ pdf_content = NoContent
    /\ pdf_item_data = [linked |-> FALSE, doi |-> FALSE]
    /\ requests = <<>>
    /\ temp_files = {}
    /\ merger = <<>>
    /\ files = << >>
    /\ chunks_info = <<>>
    /\ current_chunk = 1
    /\ current_temp_path = get_chunk_path(output_path, 1)
    /\ current_chunk_papers = <<>>
    /\ processed_papers = <<>>
    /\ failed_papers = <<>>
    /\ ExtractorIdle

\* ------------------------------------------------------- get_pdf_content
\* What get_pdf_content reads of the attachment: linked is `url and
\* linkMode == "imported_url"`, doi is `"DOI" in pdf_item["data"]`.
AttachmentKinds == [linked : BOOLEAN, doi : BOOLEAN]

\* How the remote ends answer the requests of one call: "exc" is a request
\* that raises, "404" any status that is not handled, "302_no_location" a
\* redirect without a Location header; the open-access index answers 200
\* with an open location ("oa") or without one ("not_oa").
NetOutcomes ==
    [ storage   : { "exc", "200", "302", "302_no_location", "404" },
      signed    : { "exc", "200", "404" },
      url       : { "exc", "200", "404" },
      unpaywall : { "exc", "oa", "not_oa", "404" },
      alt       : { "exc", "200", "404" } ]

\* Method 1: Zotero storage.  The requests made, and whether content was
\* returned.
ZoteroStorage(net) ==
    IF net.storage = "302"
    THEN [requests |-> << "storage", "signed" >>, got |-> net.signed = "200"]
    ELSE [requests |-> << "storage" >>, got |-> net.storage = "200"]

\* Method 2: the direct URL of a linked file.
DirectUrl(pdf_item, net) ==
    IF pdf_item.linked
    THEN [requests |-> << "url" >>, got |-> net.url = "200"]
    ELSE [requests |-> << >>, got |-> FALSE]

\* Method 3: the open-access location that Unpaywall names for the DOI.
AlternativeUrls(pdf_item, net) ==
    IF ~pdf_item.doi THEN [requests |-> << >>, got |-> FALSE]
    ELSE IF net.unpaywall = "oa"
         THEN [requests |-> << "unpaywall", "alt" >>, got |-> net.alt = "200"]
         ELSE [requests |-> << "unpaywall" >>, got |-> FALSE]

\* get_pdf_content(zot, pdf_item, title): the methods in order, each tried
\* only when the ones before it returned nothing; source is the method
\* that returned the content, "none" for `return None`.
get_pdf_content(pdf_item, net) ==
    LET m1 == ZoteroStorage(net)
        m2 == DirectUrl(pdf_item, net)
        m3 == AlternativeUrls(pdf_item, net)
    IN  IF m1.got THEN [source |-> "storage", requests |-> m1.requests]
        ELSE IF m2.got
             THEN [source |-> "url", requests |-> m1.requests \o m2.requests]
             ELSE [source |-> IF m3.got THEN "oa" ELSE "none",
                   requests |-> m1.requests \o m2.requests \o m3.requests]

\* Every way one call of get_pdf_content can go.
FetchRuns ==
    { get_pdf_content(a, n) : a \in AttachmentKinds, n \in NetOutcomes }

\* pdf_content = get_pdf_content(zot, pdf_item, title): the bytes of the
\* item's PDF from the first source that answers, or None when all fail.
GetPdfContent ==
    /\ pc = "fetch"
    /\ \E run \in FetchRuns :
          pdf_content' = IF run.source # "none" THEN items[idx] ELSE NoContent
    /\ pc' = "ingest"
    /\ UNCHANGED << extractor_vars, collection, items, idx, pdf_item_data, requests, temp_files, merger, files,
                    chunks_info, current_chunk, current_temp_path,
                    current_chunk_papers, processed_papers, failed_papers >>

\* ------------------------------------------------- the body of the loop
\* The aggregator's state as the statements of the try block thread it;
\* raised is set by the statement that raises, and the statements after it
\* are skipped.
LoopState ==
    [ temp_files |-> temp_files, merger |-> merger, files |-> files,
      chunks_info |-> chunks_info, current_chunk |-> current_chunk,
      current_temp_path |-> current_temp_path,
      current_chunk_papers |-> current_chunk_papers,
      processed_papers |-> processed_papers, raised |-> FALSE ]

Raise(s) == [s EXCEPT !.raised = TRUE]

\* with open(temp_pdf_path, "wb") as f: f.write(pdf_content)
WriteTempPdf(s, k, fault) ==
    IF fault = "tmpfile" THEN Raise(s)
    ELSE [s EXCEPT !.temp_files = @ \cup {k}]

\* merger.append(temp_pdf_path, outline_item=title)
MergerAppend(s, k, fault) ==
    IF fault = "append" THEN Raise(s)
    ELSE [s EXCEPT !.merger = Append(@, k)]

\* merger.write(current_temp_path): the file is rewritten with the whole
\* content of the merger.  A write that raises leaves the file as it was
\* (it could not be opened) or truncated (it failed while writing).
MergerWrite(s, fault) ==
    IF fault = "write_open" THEN Raise(s)
    ELSE IF fault = "write_mid"
         THEN Raise([s EXCEPT !.files = (s.current_temp_path :> <<>>) @@ @])
         ELSE [s EXCEPT !.files = (s.current_temp_path :> s.merger) @@ @]

\* A variant of the rollover that keeps writing to the sealed chunk's path.
RolloverPathStale(chunk_num) == current_temp_path

\* current_temp_path = get_chunk_path(output_path, current_chunk)
RolloverPath(chunk_num) == get_chunk_path(output_path, chunk_num)

\* current_size_mb = getsize(...); if current_size_mb >= MAX_SIZE_MB: save
\* the chunk's info, start a new chunk, append the item to the new merger
\* and reset the member list.
MeasureAndRollOver(s, k, fault) ==
    LET current_size_mb == SumSizes(s.files[s.current_temp_path])
    IN  IF ReachedCeiling(current_size_mb)
        THEN LET opened ==
                   [s EXCEPT
                      !.chunks_info =
                          Append(@, ChunkInfo(s.current_temp_path, current_size_mb,
                                              s.current_chunk_papers)),
                      !.current_chunk = NextChunk(@),
                      !.current_temp_path = RolloverPath(NextChunk(s.current_chunk)),
                      !.merger = <<>>]
             IN  IF fault = "reappend" THEN Raise(opened)
                 ELSE [opened EXCEPT !.merger = <<k>>,
                                     !.current_chunk_papers = <<>>]
        ELSE s

\* A variant of the record step that forgets the processed list.
RecordPaperChunkOnly(s, k, fault) ==
    IF fault = "pages" THEN Raise(s)
    ELSE [s EXCEPT !.current_chunk_papers = Append(@, PaperRecord(k))]

\* current_chunk_papers.append({...}); processed_papers.append(...)
RecordPaper(s, k, fault) ==
    IF fault = "pages" THEN Raise(s)
    ELSE [s EXCEPT !.current_chunk_papers = Append(@, PaperRecord(k)),
                   !.processed_papers = Append(@, PaperRecord(k))]

\* s when a statement before has raised, and next otherwise.
Then(s, next) == IF s.raised THEN s ELSE next

\* The try block for item k when pdf_content is truthy.
TryBlock(k, fault) ==
    LET s1 == WriteTempPdf(LoopState, k, fault)
        s2 == Then(s1, MergerAppend(s1, k, fault))
        s3 == Then(s2, MergerWrite(s2, fault))
        s4 == Then(s3, MeasureAndRollOver(s3, k, fault))
        s5 == Then(s4, RecordPaper(s4, k, fault))
    IN  s5

\* One iteration of `for parent_item, pdf_item in items_with_pdfs`, after
\* the download: ingest the item, or record it as failed.
ProcessItem ==
    /\ pc = "ingest"
    /\ \E fault \in Faults :
          LET s == IF pdf_content.size > 0 THEN TryBlock(idx, fault)
                   ELSE LoopState
              failed == pdf_content.size = 0 \/ s.raised
          IN  /\ temp_files' = s.temp_files
              /\ merger' = s.merger
              /\ files' = s.files
              /\ chunks_info' = s.chunks_info
              /\ current_chunk' = s.current_chunk
              /\ current_temp_path' = s.current_temp_path
              /\ current_chunk_papers' = s.current_chunk_papers
              /\ processed_papers' = s.processed_papers
              /\ failed_papers' = IF failed THEN Append(failed_papers, TitleOf(idx))
                                  ELSE failed_papers
    /\ idx' = idx + 1
    /\ pc' = IF idx = Len(items) THEN "cleanup" ELSE "fetch"
    /\ UNCHANGED << extractor_vars, collection, items, pdf_content, pdf_item_data, requests >>

\* A variant of the exit of the with block that leaves the downloaded files
\* behind (a directory made with mkdtemp and never removed).
TempDirKept(tf) == tf

\* TemporaryDirectory.__exit__: the directory is removed with all the files
\* in it (the files were closed by their own with blocks).
TempDirAfterExit(tf) == {}

\* Leaving `with tempfile.TemporaryDirectory() as temp_dir`: the directory
\* and the downloaded files in it are removed.
ExitTempDir ==
    /\ pc = "cleanup"
    /\ temp_files' = TempDirAfterExit(temp_files)
    /\ pc' = "final"
    /\ UNCHANGED << extractor_vars, collection, items, idx, pdf_content, pdf_item_data, requests, merger, files,
                    chunks_info, current_chunk, current_temp_path,
                    current_chunk_papers, processed_papers, failed_papers >>

\* # Save final chunk: if current_chunk_papers: write, measure, append the
\* chunk's info; then return chunks_info.  The write is outside the try
\* block: when it raises, combine_pdfs raises.
SaveFinalChunk ==
    /\ pc = "final"
    /\ \E fault \in { "none", "write_open", "write_mid" } :
          LET s == IF current_chunk_papers # <<>> THEN MergerWrite(LoopState, fault)
                   ELSE LoopState
          IN  /\ files' = s.files
              /\ pc' = IF s.raised THEN "raised" ELSE "done"
              /\ chunks_info' =
                    IF current_chunk_papers # <<>> /\ ~s.raised
                    THEN Append(chunks_info,
                                ChunkInfo(current_temp_path,
                                          SumSizes(s.files[current_temp_path]),
                                          current_chunk_papers))
                    ELSE chunks_info
    /\ UNCHANGED << extractor_vars, collection, items, idx, pdf_content, pdf_item_data, requests, temp_files,
                    merger, current_chunk, current_temp_path,
                    current_chunk_papers, processed_papers, failed_papers >>


\* ------------------------------- get_pdf_content, request by request
\* The state get_pdf_content does not touch.
aggregator_vars ==
    << extractor_vars, collection, items, idx, temp_files, merger, files, chunks_info, current_chunk,
       current_temp_path, current_chunk_papers, processed_papers,
       failed_papers >>

\* requests.get(...) is called without timeout= at every call site
\* (CONFIG['TIMEOUT'] is never read).
TimeoutPassed == FALSE

\* What requests.get does at an endpoint that never answers: with a timeout
\* it raises like any other network error, without one it never returns.
OnSilence == IF TimeoutPassed THEN "exc" ELSE "blocked"

\* The answers a request can get: those of NetOutcomes, or none at all.
Answers(to) == { n[to] : n \in NetOutcomes } \cup { "silent" }

\* A variant of NextStep in which a direct 200 from the storage endpoint
\* does not return (a missing `return`) and the next method is tried.
NextStepFallsThrough(to, outcome) ==
    CASE to = "storage" -> IF outcome = "302" THEN "signed" ELSE "method2"
      [] to = "signed" ->
            IF outcome = "200" THEN "return_content" ELSE "method2"
      [] to = "url" ->
            IF outcome = "200" THEN "return_content" ELSE "method3"
      [] to = "unpaywall" ->
            IF outcome = "oa" THEN "alt" ELSE "return_none"
      [] to = "alt" ->
            IF outcome = "200" THEN "return_content" ELSE "return_none"

\* A variant of NextStep in which the open-access location is requested but
\* its content is not returned.
NextStepDropsAltContent(to, outcome) ==
    CASE to = "storage" ->
            IF outcome = "200" THEN "return_content"
            ELSE IF outcome = "302" THEN "signed" ELSE "method2"
      [] to = "signed" ->
            IF outcome = "200" THEN "return_content" ELSE "method2"
      [] to = "url" ->
            IF outcome = "200" THEN "return_content" ELSE "method3"
      [] to = "unpaywall" ->
            IF outcome = "oa" THEN "alt" ELSE "return_none"
      [] to = "alt" -> "return_none"

\* A variant of NextStep in which an exception of requests.get is not
\* caught and leaves get_pdf_content and the loop.
NextStepUncaught(to, outcome) ==
    IF outcome = "exc" THEN "raised"
    ELSE CASE to = "storage" ->
                IF outcome = "200" THEN "return_content"
                ELSE IF outcome = "302" THEN "signed" ELSE "method2"
          [] to = "signed" ->
                IF outcome = "200" THEN "return_content" ELSE "method2"
          [] to = "url" ->
                IF outcome = "200" THEN "return_content" ELSE "method3"
          [] to = "unpaywall" ->
                IF outcome = "oa" THEN "alt" ELSE "return_none"
          [] to = "alt" ->
                IF outcome = "200" THEN "return_content" ELSE "return_none"

\* A variant of NextStep in which a request that raised is sent again
\* (a retry loop, as CONFIG['RETRY_ATTEMPTS'] suggests).
NextStepRetry(to, outcome) ==
    IF outcome = "exc"
    THEN CASE to = "storage" -> "storage"
           [] to = "signed" -> "signed"
           [] to = "url" -> "method2"
           [] to = "unpaywall" -> "method3"
           [] to = "alt" -> "alt"
    ELSE CASE to = "storage" ->
                IF outcome = "200" THEN "return_content"
                ELSE IF outcome = "302" THEN "signed" ELSE "method2"
          [] to = "signed" ->
                IF outcome = "200" THEN "return_content" ELSE "method2"
          [] to = "url" ->
                IF outcome = "200" THEN "return_content" ELSE "method3"
          [] to = "unpaywall" ->
                IF outcome = "oa" THEN "alt" ELSE "return_none"
          [] to = "alt" ->
                IF outcome = "200" THEN "return_content" ELSE "return_none"

\* Where get_pdf_content goes after the request `to` ended with outcome:
\* a 200 returns response.content, a 302 with a Location header goes on to
\* the signed URL, an open-access location goes on to that URL; a raised
\* exception is caught by the method's `except Exception` and, like any
\* other status, falls through to the next method (or to `return None`).
NextStep(to, outcome) ==
    CASE to = "storage" ->
            IF outcome = "200" THEN "return_content"
            ELSE IF outcome = "302" THEN "signed" ELSE "method2"
      [] to = "signed" ->
            IF outcome = "200" THEN "return_content" ELSE "method2"
      [] to = "url" ->
            IF outcome = "200" THEN "return_content" ELSE "method3"
      [] to = "unpaywall" ->
            IF outcome = "oa" THEN "alt" ELSE "return_none"
      [] to = "alt" ->
            IF outcome = "200" THEN "return_content" ELSE "return_none"

\* The call goes on at `step`: it returns to the loop of combine_pdfs with
\* the content or with None, or it stays inside get_pdf_content.
GoOn(step) ==
    /\ pc' = IF step \in { "return_content", "return_none" } THEN "ingest"
             ELSE step
    /\ pdf_content' = IF step = "return_content" THEN items[idx]
                      ELSE IF step = "return_none" THEN NoContent
                      ELSE pdf_content

\* response = requests.get(<to>, ...) with the given outcome.
Request(to, outcome) ==
    LET ended == IF outcome = "silent" THEN OnSilence ELSE outcome
    IN  /\ requests' = Append(requests, [to |-> to, outcome |-> outcome])
        /\ GoOn(IF ended = "blocked" THEN "blocked" ELSE NextStep(to, ended))
        /\ UNCHANGED aggregator_vars
        /\ UNCHANGED pdf_item_data

\* pdf_content = get_pdf_content(zot, pdf_item, title): the call starts.
CallGetPdfContent ==
    /\ pc = "fetch"
    /\ pdf_item_data' \in AttachmentKinds
    /\ requests' = <<>>
    /\ pc' = "storage"
    /\ UNCHANGED pdf_content
    /\ UNCHANGED aggregator_vars

\* Method 1: requests.get(download_url, headers=..., allow_redirects=False)
StorageRequest ==
    /\ pc = "storage"
    /\ \E outcome \in Answers("storage") : Request("storage", outcome)

\* Method 1: file_response = requests.get(signed_url)
SignedUrlRequest ==
    /\ pc = "signed"
    /\ \E outcome \in Answers("signed") : Request("signed", outcome)

\* Method 2: if url and linkMode == "imported_url": requests.get(url, ...)
DirectUrlRequest ==
    /\ pc = "method2"
    /\ IF pdf_item_data.linked
       THEN \E outcome \in Answers("url") : Request("url", outcome)
       ELSE /\ GoOn("method3")
            /\ UNCHANGED << pdf_item_data, requests >>
            /\ UNCHANGED aggregator_vars

\* Method 3: if "DOI" in pdf_item["data"]: requests.get(unpaywall_url);
\* without a DOI alt_urls stays empty and the function returns None.
UnpaywallLookup ==
    /\ pc = "method3"
    /\ IF pdf_item_data.doi
       THEN \E outcome \in Answers("unpaywall") : Request("unpaywall", outcome)
       ELSE /\ GoOn("return_none")
            /\ UNCHANGED << pdf_item_data, requests >>
            /\ UNCHANGED aggregator_vars

\* Method 3: for alt_url in alt_urls: requests.get(alt_url, ...)
AlternativeUrlRequest ==
    /\ pc = "alt"
    /\ \E outcome \in Answers("alt") : Request("alt", outcome)

\* The positions inside the with block.
InsideWith ==
    { "fetch", "ingest", "storage", "signed", "method2", "method3", "alt",
      "blocked" }

\* An error that `except Exception` does not catch (KeyboardInterrupt,
\* SystemExit, an error raised in the handler itself) leaves the loop and
\* the with block, whose exit removes the directory, and then combine_pdfs.
ErrorEscapes ==
    /\ pc \in InsideWith
    /\ idx <= Len(items)
    /\ temp_files' = TempDirAfterExit(temp_files)
    /\ pc' = "escaped"
    /\ UNCHANGED << extractor_vars, collection, items, idx, pdf_content, pdf_item_data, requests, merger,
                    files, chunks_info, current_chunk, current_temp_path,
                    current_chunk_papers, processed_papers, failed_papers >>

Next ==
    \/ GetPdfContent
    \/ ProcessItem
    \/ ExitTempDir
    \/ SaveFinalChunk
    \/ ErrorEscapes

Spec == Init /\ [][Next]_vars

\* combine_pdfs on a short list, with get_pdf_content followed request by
\* request.
InitFetch ==
    /\ items \in SeqsUpTo(PdfContents, MaxFetchItems)
    /\ Len(items) >= 1
    /\ collection = AllWithPdfs(items)
    /\ pc = "fetch"
    /\ idx = 1
    /\ pdf_content = NoContent
    /\ pdf_item_data = [linked |-> FALSE, doi |-> FALSE]
    /\ requests = <<>>
    /\ temp_files = {}
    /\ merger = <<>>
    /\ files = << >>
    /\ chunks_info = <<>>
    /\ current_chunk = 1
    /\ current_temp_path = get_chunk_path(output_path, 1)
    /\ current_chunk_papers = <<>>
    /\ processed_papers = <<>>
    /\ failed_papers = <<>>
    /\ ExtractorIdle

NextFetch ==
    \/ CallGetPdfContent
    \/ StorageRequest
    \/ SignedUrlRequest
    \/ DirectUrlRequest
    \/ UnpaywallLookup
    \/ AlternativeUrlRequest
    \/ ProcessItem
    \/ ExitTempDir
    \/ SaveFinalChunk
    \/ ErrorEscapes

SpecFetch == InitFetch /\ [][NextFetch]_vars

\* ------------------------------------ main(): from the collection onwards
\* items_with_pdfs = get_collection_items_with_pdfs(zot, parent_key);
\* if not items_with_pdfs: print("No PDFs found in the collection"); return
\* otherwise combine_pdfs(items_with_pdfs, zot, output_path) is called.
GetCollectionItemsWithPdfs ==
    /\ pc = "collect"
    /\ LET kept == get_collection_items_with_pdfs(collection)
       IN  /\ items' = [k \in 1..Len(kept) |-> collection[kept[k]].content]
           /\ pc' = IF kept = <<>> THEN "no_pdfs" ELSE "fetch"
    /\ UNCHANGED << extractor_vars, collection, idx, pdf_content, pdf_item_data, requests,
                    temp_files, merger, files, chunks_info, current_chunk,
                    current_temp_path, current_chunk_papers, processed_papers,
                    failed_papers >>

InitCollect ==
    /\ collection \in SeqsUpTo(CollectionEntries, MaxCollection)
    /\ items = <<>>
    /\ pc = "collect"
    /\ idx = 1
    /\ pdf_content = NoContent
    /\ pdf_item_data = [linked |-> FALSE, doi |-> FALSE]
    /\ requests = <<>>
    /\ temp_files = {}
    /\ merger = <<>>
    /\ files = << >>
    /\ chunks_info = <<>>
    /\ current_chunk = 1
    /\ current_temp_path = get_chunk_path(output_path, 1)
    /\ current_chunk_papers = <<>>
    /\ processed_papers = <<>>
    /\ failed_papers = <<>>
    /\ ExtractorIdle

NextCollect ==
    \/ GetCollectionItemsWithPdfs
    \/ GetPdfContent
    \/ ProcessItem
    \/ ExitTempDir
    \/ SaveFinalChunk
    \/ ErrorEscapes

SpecCollect == InitCollect /\ [][NextCollect]_vars

\* --------------------- llm_summarize_pdfs.py: extract_text_from_pdf
\* The texts page.extract_text() yields: none for a page without text.
PageTexts == { "", "a", "b" }

\* The arguments of extract_text_from_pdf: bytes PdfReader cannot read, or
\* a document given by the texts of its pages.
PdfBytes ==
    { [readable |-> FALSE, pages |-> <<>>] } \cup
       { [readable |-> TRUE, pages |-> pp] : pp \in SeqsUpTo(PageTexts, MaxPages) }

\* The state of combine_pdfs.py, which the extraction does not touch.
combine_vars ==
    << collection, items, pc, idx, pdf_content, pdf_item_data, requests,
       temp_files, merger, files, chunks_info, current_chunk,
       current_temp_path, current_chunk_papers, processed_papers,
       failed_papers >>

RECURSIVE JoinLines(_)
\* "\n".join(text_content)
JoinLines(texts) ==
    IF texts = <<>> THEN ""
    ELSE IF Len(texts) = 1 THEN texts[1]
    ELSE texts[1] \o "\n" \o JoinLines(Tail(texts))

\* with tempfile.NamedTemporaryFile(suffix=".pdf", delete=False) as tmp:
\* the file is created, or the call raises and no file exists.
CreateTempFile ==
    /\ extract_pc = "call"
    /\ \E raises \in BOOLEAN :
          /\ tmp_path_exists' = ~raises
          /\ extract_pc' = IF raises THEN "raised" ELSE "opened"
    /\ UNCHANGED << pdf_bytes, page_no, text_content, extracted_text >>
    /\ UNCHANGED combine_vars

\* tmp.write(pdf_bytes); tmp.flush(); tmp_path = tmp.name, and the end of
\* the with block, which closes the file and, with delete=False, keeps it
\* also when the write raised.
WriteBytes ==
    /\ extract_pc = "opened"
    /\ \E raises \in BOOLEAN :
          extract_pc' = IF raises THEN "raised" ELSE "closed"
    /\ UNCHANGED << pdf_bytes, tmp_path_exists, page_no, text_content,
                    extracted_text >>
    /\ UNCHANGED combine_vars

\* reader = PdfReader(tmp_path): raises when the bytes are not a PDF.
OpenReader ==
    /\ extract_pc = "closed"
    /\ extract_pc' = IF pdf_bytes.readable THEN "pages" ELSE "raised"
    /\ page_no' = 1
    /\ UNCHANGED << pdf_bytes, tmp_path_exists, text_content, extracted_text >>
    /\ UNCHANGED combine_vars

\* for page in reader.pages: page_text = page.extract_text();
\* if page_text: text_content.append(page_text)
ExtractPage ==
    /\ extract_pc = "pages"
    /\ page_no <= Len(pdf_bytes.pages)
    /\ \E raises \in BOOLEAN :
          LET page_text == pdf_bytes.pages[page_no]
          IN  /\ extract_pc' = IF raises THEN "raised" ELSE "pages"
              /\ page_no' = IF raises THEN page_no ELSE page_no + 1
              /\ text_content' = IF ~raises /\ page_text # ""
                                 THEN Append(text_content, page_text)
                                 ELSE text_content
    /\ UNCHANGED << pdf_bytes, tmp_path_exists, extracted_text >>
    /\ UNCHANGED combine_vars

\* os.remove(tmp_path); return "\n".join(text_content).  When os.remove
\* raises the file is still there.
RemoveAndReturn ==
    /\ extract_pc = "pages"
    /\ page_no > Len(pdf_bytes.pages)
    /\ \E raises \in BOOLEAN :
          /\ tmp_path_exists' = raises
          /\ extract_pc' = IF raises THEN "raised" ELSE "returned"
          /\ extracted_text' = IF raises THEN extracted_text
                               ELSE JoinLines(text_content)
    /\ UNCHANGED << pdf_bytes, page_no, text_content >>
    /\ UNCHANGED combine_vars

InitExtract ==
    /\ pdf_bytes \in PdfBytes
    /\ extract_pc = "call"
    /\ tmp_path_exists = FALSE
    /\ page_no = 1
    /\ text_content = <<>>
    /\ extracted_text = ""
    /\ collection = <<>>
    /\ items = <<>>
    /\ pc = "not_running"
    /\ idx = 1
    /\ pdf_content = NoContent
    /\ pdf_item_data = [linked |-> FALSE, doi |-> FALSE]
    /\ requests = <<>>
    /\ temp_files = {}
    /\ merger = <<>>
    /\ files = << >>
    /\ chunks_info = <<>>
    /\ current_chunk = 1
    /\ current_temp_path = get_chunk_path(output_path, 1)
    /\ current_chunk_papers = <<>>
    /\ processed_papers = <<>>
    /\ failed_papers = <<>>

NextExtract ==
    \/ CreateTempFile
    \/ WriteBytes
    \/ OpenReader
    \/ ExtractPage
    \/ RemoveAndReturn

SpecExtract == InitExtract /\ [][NextExtract]_vars

\* ------------------------------------------------- notions the claims use
Last(s) == s[Len(s)]
Front(s) == SubSeq(s, 1, Len(s) - 1)
Holds(content, k) == \E i \in 1..Len(content) : content[i] = k
HasTitle(papers, title) == \E i \in 1..Len(papers) : papers[i].title = title
TitlesOf(papers) == [i \in 1..Len(papers) |-> papers[i].title]
TitlesFromTo(a, b) == [i \in 1..(b - a + 1) |-> TitleOf(a + i - 1)]
Keys == 1..Len(items)

\* The final chunk (flushed at input exhaustion) is the last entry of the
\* returned list exactly when the open chunk had members.
FinalChunkEmitted == pc = "done" /\ current_chunk_papers # <<>>

\* The number of entries of chunks_info that a rollover sealed.
NumSealedByRollover ==
    IF FinalChunkEmitted THEN Len(chunks_info) - 1 ELSE Len(chunks_info)

\* The member list of the chunk that the rollover sealing chunk k opened.
PapersOfChunkOpenedAfter(k) ==
    IF k < Len(chunks_info) THEN chunks_info[k + 1].papers
    ELSE current_chunk_papers

RECURSIVE ConcatPapers(_)
\* The member lists of a list of chunks, concatenated in list order.
ConcatPapers(chunks) ==
    IF chunks = <<>> THEN <<>>
    ELSE Head(chunks).papers \o ConcatPapers(Tail(chunks))

RECURSIVE SumOfItemSizes(_)
\* The total size of the first n items of the input.
SumOfItemSizes(n) == IF n = 0 THEN 0 ELSE items[n].size + SumOfItemSizes(n - 1)

\* ------------------------------------------------------------------- C1
\* C1: whenever ingesting an item makes the measured size of the open chunk
\* reach the ceiling, that item (when it is processed) is recorded as a
\* member of the chunk sealed by this rollover, and not as a member of the
\* chunk the rollover opens.  The item that triggered the rollover of chunk
\* k is the last one in chunk k's written artifact.
C1_TriggerRecordedInSealedChunk ==
    \A k \in 1..NumSealedByRollover :
        LET trigger == TitleOf(Last(files[chunks_info[k].path]))
        IN  HasTitle(processed_papers, trigger) =>
               /\ HasTitle(chunks_info[k].papers, trigger)
               /\ ~HasTitle(PapersOfChunkOpenedAfter(k), trigger)

\* ------------------------------------------------------------------- C2
\* C2: in a run without failures in which the measured size first reaches
\* the ceiling on the last item (the items before it stay below it), the
\* returned list holds exactly one chunk, whose members are all the items in
\* ingestion order (the chunk opened by the rollover is empty and discarded).
C2_OneChunkWhenLastItemOverflows ==
    ( /\ pc = "done"
      /\ Len(items) >= 1
      /\ failed_papers = <<>>
      /\ SumOfItemSizes(Len(items) - 1) < MAX_SIZE_MB
      /\ SumOfItemSizes(Len(items)) >= MAX_SIZE_MB )
    => /\ Len(chunks_info) = 1
       /\ TitlesOf(chunks_info[1].papers) = TitlesFromTo(1, Len(items))

\* ------------------------------------------------------------------- C3
\* C3: the content of an ingested item is in the artifact of exactly one
\* chunk: never in two written artifacts, and, once the run has returned, in
\* exactly one when the item is processed.
C3_ItemInExactlyOneArtifact ==
    \A k \in Keys :
        LET holding == { p \in DOMAIN files : Holds(files[p], k) }
        IN  /\ Cardinality(holding) <= 1
            /\ (pc = "done" /\ HasTitle(processed_papers, TitleOf(k)))
                  => Cardinality(holding) = 1

\* ------------------------------------------------------------------- C4
\* C4: when the run has returned, the member lists of the emitted chunks,
\* concatenated in index order, are exactly the processed list.
C4_MembersAreTheProcessedList ==
    pc = "done" => ConcatPapers(chunks_info) = processed_papers

\* ------------------------------------------------------------------- C5
\* C5: the k-th emitted chunk carries index k in its artifact path: indices
\* start at 1 and are contiguous, whatever the rollovers and failed items.
C5_ChunkIndicesContiguous ==
    \A k \in 1..Len(chunks_info) :
        chunks_info[k].path = get_chunk_path(output_path, k)

\* A returned list of at least two chunks of a run that also had a failed
\* item.
C5_Witness ==
    /\ pc = "done"
    /\ Len(chunks_info) >= 2
    /\ failed_papers # <<>>
    /\ processed_papers # <<>>

\* ------------------------------------------------------------------- C6
\* C6: every emitted chunk has a recorded size >= the ceiling, or is the
\* last chunk of the run, flushed at input exhaustion.
C6_SealedAtCeilingOrFinal ==
    \A k \in 1..Len(chunks_info) :
        \/ chunks_info[k].size >= MAX_SIZE_MB
        \/ (FinalChunkEmitted /\ k = Len(chunks_info))

\* A returned list whose first chunk was sealed exactly at the ceiling and
\* whose final chunk is below it.
C6_Witness ==
    /\ pc = "done"
    /\ Len(chunks_info) >= 2
    /\ chunks_info[1].size = MAX_SIZE_MB
    /\ Last(chunks_info).size < MAX_SIZE_MB

\* ------------------------------------------------------------------- C7
\* C7: in a run without failed items, the content of every written artifact
\* before its last item was appended is strictly below the ceiling.
C7_OvershootByAtMostOneItem ==
    failed_papers = <<>> =>
        \A p \in DOMAIN files :
            files[p] # <<>> => SumSizes(Front(files[p])) < MAX_SIZE_MB

\* ------------------------------------------------------------------- C8
\* C8: every entry of the chunk list has a non-empty member list.
C8_NoEmptyChunkEmitted ==
    \A k \in 1..Len(chunks_info) : chunks_info[k].papers # <<>>

\* ------------------------------------------------------------------- C9
\* C9: once a chunk is in the chunk list, no step changes its recorded
\* members, size or path, and no step writes its artifact again.
C9_SealedChunkFrozen ==
    [][ \A k \in 1..Len(chunks_info) :
            /\ Len(chunks_info') >= k
            /\ chunks_info'[k] = chunks_info[k]
            /\ files'[chunks_info[k].path] = files[chunks_info[k].path] ]_vars

\* A later ingest has written the artifact of chunk 2 after chunk 1 was
\* sealed.
C9_Witness ==
    /\ Len(chunks_info) >= 1
    /\ pc \in { "fetch", "ingest" }
    /\ get_chunk_path(output_path, 2) \in DOMAIN files
    /\ files[get_chunk_path(output_path, 2)] # <<>>

\* ------------------------------------------------------------------ C10
\* C10 as stated: artifacts are named {base_name}_chunk{n}.{ext} when the
\* run produced more than one chunk, and {base_name}.{ext} when it produced
\* exactly one chunk and no rollover occurred.
C10_PlainNameForSingleChunk ==
    pc = "done" =>
        /\ Len(chunks_info) > 1 =>
              \A k \in 1..Len(chunks_info) :
                  chunks_info[k].path =
                      output_path.name \o "_chunk" \o ToString(k) \o output_path.ext
        /\ (Len(chunks_info) = 1 /\ current_chunk = 1) =>
              chunks_info[1].path = output_path.name \o output_path.ext

\* C10 amended: every artifact is named {base_name}_chunk{n}.{ext}, also
\* when the run produced exactly one chunk and no rollover occurred (it is
\* {base_name}_chunk1.{ext}); no file {base_name}.{ext} is written.
C10_ChunkSuffixAlways ==
    /\ \A p \in DOMAIN files :
          \E n \in 1..(Len(items) + 1) :
              p = output_path.name \o "_chunk" \o ToString(n) \o output_path.ext
    /\ \A k \in 1..Len(chunks_info) : chunks_info[k].path \in DOMAIN files
    /\ (pc = "done" /\ Len(chunks_info) = 1 /\ current_chunk = 1) =>
          chunks_info[1].path =
              output_path.name \o "_chunk1" \o output_path.ext

\* A run that returned exactly one chunk without any rollover.
C10_Witness ==
    /\ pc = "done"
    /\ Len(chunks_info) = 1
    /\ current_chunk = 1
    /\ Len(processed_papers) >= 2

\* ------------------------------------- notions of the claims on fetching
\* The source a request belongs to, by priority: 1 primary storage (the
\* storage endpoint and the signed location), 2 direct URL, 3 open-access
\* mirror (the lookup and the location it names).
Priority(to) ==
    CASE to \in { "storage", "signed" } -> 1
      [] to = "url" -> 2
      [] to \in { "unpaywall", "alt" } -> 3

\* The request yielded the content of the PDF.
Succeeded(r) == r.to \in { "storage", "signed", "url", "alt" } /\ r.outcome = "200"

NoSourceYielded == \A i \in 1..Len(requests) : ~Succeeded(requests[i])

RequestsTo == [i \in 1..Len(requests) |-> requests[i].to]

\* The positions at which the log in requests is that of a finished call.
AfterTheCall == { "ingest", "fetch", "cleanup", "final", "done", "raised" }

\* ------------------------------------------------------------------ C11
\* C11: get_pdf_content contacts its sources in the order primary storage,
\* direct URL, open-access mirror: a request to a source comes after all
\* requests to the sources before it, which failed; the first request goes
\* to the storage; a linked file's URL is asked before the mirror; and no
\* request follows one that succeeded.
C11_SourcesInPriorityOrder ==
    \A i \in 1..Len(requests) :
        /\ \A j \in 1..(i - 1) :
              /\ Priority(requests[j].to) <= Priority(requests[i].to)
              /\ ~Succeeded(requests[j])
        /\ i = 1 => requests[i].to = "storage"
        /\ (Priority(requests[i].to) = 3 /\ pdf_item_data.linked) =>
              \E j \in 1..(i - 1) : requests[j].to = "url"

\* A call that went through all three sources and got the content from the
\* last one.
C11_Witness ==
    /\ pc = "ingest"
    /\ RequestsTo = << "storage", "signed", "url", "unpaywall", "alt" >>
    /\ Succeeded(requests[5])

\* ------------------------------------------------------------------ C12
\* The first source (storage) and the second (direct URL) failed and the
\* third (the open-access location) answered 200.
ThirdSucceededAfterTwoFailed ==
    /\ pc = "ingest"
    /\ Len(requests) >= 4
    /\ requests[1].to = "storage"
    /\ \E i \in 1..Len(requests) : requests[i].to = "url"
    /\ requests[Len(requests)] = [to |-> "alt", outcome |-> "200"]

C13_AbsentResultRecordedAsFailed ==
    /\ (pc = "ingest" /\ NoSourceYielded) => pdf_content = NoContent
    /\ pc = "raised" => idx > Len(items)
    /\ (pc \in AfterTheCall \ { "ingest" } /\ idx > 1 /\ NoSourceYielded) =>
          /\ \E i \in 1..Len(failed_papers) : failed_papers[i] = TitleOf(idx - 1)
          /\ \A i \in 1..Len(processed_papers) :
                processed_papers[i].title # TitleOf(idx - 1)
          /\ \A c \in 1..Len(chunks_info) :
                \A i \in 1..Len(chunks_info[c].papers) :
                    chunks_info[c].papers[i].title # TitleOf(idx - 1)
          /\ \A i \in 1..Len(current_chunk_papers) :
                current_chunk_papers[i].title # TitleOf(idx - 1)
          /\ \A p \in DOMAIN files :
                \A i \in 1..Len(files[p]) : files[p][i] # idx - 1

\* The run has returned after a call in which five requests failed in the
\* four ways.
C13_Witness ==
    /\ pc = "done"
    /\ Len(requests) = 5
    /\ NoSourceYielded
    /\ requests[1].outcome = "302"
    /\ requests[2].outcome = "404"
    /\ requests[3].outcome = "exc"
    /\ failed_papers # <<>>

\* ------------------------------------------------------------------ C14
\* C14: within one call of get_pdf_content no request is sent twice to the
\* same place (storage endpoint, signed location, direct URL, open-access
\* lookup, open-access location).
C14_EachSourceAtMostOnce ==
    \A i, j \in 1..Len(requests) :
        i # j => requests[i].to # requests[j].to

\* A call in which every request raised or was refused.
C14_Witness ==
    /\ pc = "ingest"
    /\ pdf_content = NoContent
    /\ Len(requests) = 3
    /\ \A i \in 1..3 : requests[i].outcome = "exc"

\* ------------------------------------------------------------------ C18
\* C18: no request waits forever: at an endpoint that never answers the
\* request ends by its timeout, so get_pdf_content is never blocked in it.
C18_SilentEndpointDoesNotBlock ==
    \A i \in 1..Len(requests) :
        requests[i].outcome = "silent" => pc # "blocked"

\* ------------------------------------------------------------------ C15
\* The titles of the items handled so far that are in the list, in the
\* order of the input.
HandledIn(titles) ==
    LET F[k \in 0..(idx - 1)] ==
          IF k = 0 THEN <<>>
          ELSE IF \E i \in 1..Len(titles) : titles[i] = TitleOf(k)
               THEN Append(F[k - 1], TitleOf(k))
               ELSE F[k - 1]
    IN  F[idx - 1]

\* C15: a failure at one item (no content, or an error raised while it is
\* ingested) does not end the run: the loop ends only after the last item,
\* and at every point each item handled so far is in exactly one of the
\* processed list and the failed list, both in the order of the input.
C15_EveryItemHandledOnce ==
    /\ pc \in { "cleanup", "final", "done", "raised" } => idx = Len(items) + 1
    /\ Len(processed_papers) + Len(failed_papers) = idx - 1
    /\ TitlesOf(processed_papers) = HandledIn(TitlesOf(processed_papers))
    /\ failed_papers = HandledIn(failed_papers)
    /\ \A k \in 1..(idx - 1) :
          HasTitle(processed_papers, TitleOf(k)) #
             (\E i \in 1..Len(failed_papers) : failed_papers[i] = TitleOf(k))

\* A run that returned after the first item failed and later ones were
\* processed and failed.
C15_Witness ==
    /\ pc = "done"
    /\ Len(items) = 3
    /\ failed_papers = << TitleOf(1), TitleOf(3) >>
    /\ TitlesOf(processed_papers) = << TitleOf(2) >>

\* ------------------------------------------------------------------ C16
\* The faults of the aggregator: the merge (append) and the
\* materialize-and-measure (write) of an item being ingested.
AggregatorFaults == { "append", "write_open", "write_mid", "reappend" }

\* The step is an ingest in which the aggregator raised.
AggregatorRaised ==
    /\ pc = "ingest"
    /\ pdf_content.size > 0
    /\ \E fault \in AggregatorFaults :
          LET s == TryBlock(idx, fault)
          IN  /\ s.raised
              /\ merger' = s.merger
              /\ files' = s.files
              /\ chunks_info' = s.chunks_info
              /\ temp_files' = s.temp_files
              /\ failed_papers' = Append(failed_papers, TitleOf(idx))

\* C16: when the merge or the materialize-and-measure raises while an item
\* is ingested, combine_pdfs stops: it does not go on to the next item.
C16_AggregatorErrorStopsRun ==
    [][ AggregatorRaised => pc' # "fetch" ]_vars

\* ------------------------------------------------------------------ C19
\* C19: the temporary directory is gone on every way out of the with block:
\* after the loop ended (with or without failed items) and when an error
\* left the loop.
C19_TempStorageReleased ==
    pc \in { "final", "done", "raised", "escaped" } => temp_files = {}

\* An error left the loop after one item was downloaded and ingested and
\* another failed.
C19_Witness ==
    /\ pc = "escaped"
    /\ processed_papers # <<>>
    /\ failed_papers # <<>>
    /\ temp_files = {}

\* ------------------------------------------------------------------ C20
\* The step writes the artifact at path p: a write in the loop changes the
\* file, the final write happens when the last chunk has members.
Materializes(p) ==
    /\ p \in DOMAIN files'
    /\ \/ p \notin DOMAIN files
       \/ files'[p] # files[p]
       \/ /\ pc = "final"
          /\ pc' = "done"
          /\ current_chunk_papers # <<>>
          /\ p = current_temp_path

\* C20: whenever a chunk artifact is written, the final one included, the
\* downloaded files its content comes from still exist.
C20_WrittenWhileTempFilesExist ==
    [][ \A p \in DOMAIN files' :
           Materializes(p) =>
              \A i \in 1..Len(files'[p]) : files'[p][i] \in temp_files' ]_vars

\* ------------------------------------------------------------------ C17
\* The positions in the collection of the items without a PDF attachment.
WithoutPdf == { j \in 1..Len(collection) : collection[j].kind = "no_pdf" }

\* The title is that of an item the run has taken up or recorded anywhere.
Recorded(title) ==
    \/ \E i \in 1..Len(failed_papers) : failed_papers[i] = title
    \/ HasTitle(processed_papers, title)
    \/ HasTitle(current_chunk_papers, title)
    \/ \E c \in 1..Len(chunks_info) : HasTitle(chunks_info[c].papers, title)

\* C17 as stated: an item without a PDF attachment is in the failed list
\* when the run has ended.
C17_NoAttachmentListedAsFailed ==
    pc \in { "done", "no_pdfs" } =>
        \A j \in WithoutPdf :
            \E i \in 1..Len(failed_papers) : failed_papers[i] = CollectionTitle(j)

\* C17 amended: an item without a PDF attachment is left out of
\* items_with_pdfs: it is never the item get_pdf_content is called for, and
\* it is in no chunk, not in the processed list and not in the failed list.
C17_NoAttachmentLeftOut ==
    \A j \in WithoutPdf :
        /\ \A k \in 1..Len(items) : TitleOf(k) # CollectionTitle(j)
        /\ ~Recorded(CollectionTitle(j))

\* A run that returned a chunk for a collection whose first item has no PDF
\* attachment and whose second has one.
C17_Witness ==
    /\ pc = "done"
    /\ Len(collection) = 2
    /\ collection[1].kind = "no_pdf"
    /\ collection[2].kind = "pdf"
    /\ HasTitle(processed_papers, CollectionTitle(2))
    /\ Len(chunks_info) = 1

\* ------------------------------------------------------------------ C21
\* C21: an item recorded in the failed list has no pages in an emitted
\* chunk: no artifact of the returned list holds the key of an item whose
\* title is in failed_papers.
C21_FailedItemInNoChunk ==
    pc = "done" =>
        \A k \in Keys :
            (\E i \in 1..Len(failed_papers) : failed_papers[i] = TitleOf(k)) =>
                \A c \in 1..Len(chunks_info) :
                    ~Holds(files[chunks_info[c].path], k)

\* ------------------------------------------------------------------ C22
\* C22: after extract_text_from_pdf has returned or raised, the temporary
\* file it created no longer exists.
C22_TempFileDeletedOnEveryExit ==
    extract_pc \in { "returned", "raised" } => ~tmp_path_exists

====
